---- MODULE Spec2Model ----
(***************************************************************************)
(* Model of the repository-version resolution pipeline                     *)
(* (data_collection/collect/get_version.py): main loads a batch of task    *)
(* records, prepare_repo_cache resolves one local copy per repository,     *)
(* process_repos fans the tasks out over a ProcessPoolExecutor whose        *)
(* workers run process_repo_task, and save_results writes the two output   *)
(* artifacts.                                                              *)
(*                                                                         *)
(* File-system paths below a root are sequences of path segments; the      *)
(* input path, whose suffix is inspected character by character, is a      *)
(* sequence of characters.                                                 *)
(***************************************************************************)
EXTENDS Integers, Sequences, FiniteSets, TLC

(* ------------------------------ bounds -------------------------------- *)

\* longest batch of task records in the input file
MaxTasks == 2

\* largest --max-workers value tried
MaxWorkers == 2

(* --------------------------- input universe --------------------------- *)

\* a repository name "owner/name" is held as repo.split("/")

Record(i, r) == [instance_id |-> i, repo |-> r, base_commit |-> "c1"]

\* two records with one instance_id, two of one repository, two repositories
\* with one bare name
GoodRecords ==
  {Record("i1", <<"alice", "proj">>), Record("i1", <<"bob", "proj">>),
   Record("i2", <<"bob", "proj">>)}

\* a record that lacks base_commit
BadRecords == {[instance_id |-> "i1", repo |-> <<"alice", "proj">>]}

Records == GoodRecords \cup BadRecords

Batches == UNION {[1..n -> Records] : n \in 1..MaxTasks}

\* what the input file holds: text json cannot parse, or a batch of records
Garbage == [parses |-> FALSE, records |-> <<>>]

InputFiles == {Garbage} \cup {[parses |-> TRUE, records |-> b] : b \in Batches}

testbed == "tb"

LocalRoot == "lc"

(* ----------------------- character-level paths ------------------------ *)

P_d_t_json == <<"d", "/", "t", ".", "j", "s", "o", "n">>
P_d_t_jsonl == <<"d", "/", "t", ".", "j", "s", "o", "n", "l">>
P_d_t_jsonl_all ==
  <<"d", "/", "t", ".", "j", "s", "o", "n", "l", ".", "a", "l", "l">>
P_t_jsonl == <<"t", ".", "j", "s", "o", "n", "l">>

InstancePaths == {P_d_t_json, P_d_t_jsonl, P_d_t_jsonl_all, P_t_jsonl}

DotJsonl == <<".", "j", "s", "o", "n", "l">>
DotJsonlAll == <<".", "j", "s", "o", "n", "l", ".", "a", "l", "l">>
SuffixVersions == <<"_", "v", "e", "r", "s", "i", "o", "n", "s">>
SuffixFailures == <<"_", "f", "a", "i", "l", "u", "r", "e", "s">>

\* str.endswith
endswith(p, suf) ==
  /\ Len(suf) <= Len(p)
  /\ SubSeq(p, Len(p) - Len(suf) + 1, Len(p)) = suf

\* str.rfind + 1: the index of the last occurrence of c in p, 0 when absent
LastIndexOf(p, c) ==
  LET hits == {i \in 1..Len(p) : p[i] = c}
  IN  IF hits = {} THEN 0 ELSE CHOOSE i \in hits : \A j \in hits : j <= i

\* os.path.splitext: the extension starts at the last dot of the last
\* component, unless only dots precede it in that component
splitext(p) ==
  LET sepIndex == LastIndexOf(p, "/")
      dotIndex == LastIndexOf(p, ".")
  IN  IF /\ dotIndex > sepIndex
         /\ \E k \in (sepIndex + 1)..(dotIndex - 1) : p[k] # "."
      THEN <<SubSeq(p, 1, dotIndex - 1), SubSeq(p, dotIndex, Len(p))>>
      ELSE <<p, <<>>>>

\* os.path.dirname (of a path with no trailing or doubled separators)
dirname(p) ==
  LET sepIndex == LastIndexOf(p, "/")
  IN  IF sepIndex <= 1 THEN SubSeq(p, 1, sepIndex) ELSE SubSeq(p, 1, sepIndex - 1)

\* the branch get_instances and save_results take on a path
StyleOf(p) ==
  IF endswith(p, DotJsonl) \/ endswith(p, DotJsonlAll) THEN "lines" ELSE "array"

generate_output_path(p, suffix) ==
  LET parts == splitext(p) IN parts[1] \o suffix \o parts[2]

(* --------------------------- the file system -------------------------- *)

\* os.path.abspath: a relative path is resolved against the working
\* directory the tool was started in
abspath(p) == IF p[1] = "/" THEN p ELSE <<"/", "cwd">> \o p

IsPrefix(p, q) == Len(p) <= Len(q) /\ SubSeq(q, 1, Len(p)) = p

\* what is_git_repo_path and process_repo_task look at in a directory
WorkTree == [git |-> TRUE, head |-> FALSE, objects |-> FALSE]
Bare == [git |-> FALSE, head |-> TRUE, objects |-> TRUE]
HeadOnly == [git |-> FALSE, head |-> TRUE, objects |-> FALSE]
Plain == [git |-> FALSE, head |-> FALSE, objects |-> FALSE]

\* os.path.join(a, b)
join(a, b) == a \o b

\* path + ".git"
WithSuffix(p, suf) == [p EXCEPT ![Len(p)] = p[Len(p)] \o suf]

\* "__".join(segments), i.e. repo.replace("/", "__") of "owner/name"
RECURSIVE Flat(_)
Flat(repo) ==
  IF Len(repo) = 1 THEN repo[1]
  ELSE repo[1] \o "__" \o Flat(Tail(repo))

isdir(d, p) == abspath(p) \in DOMAIN d

exists(d, p) == isdir(d, p)

is_git_repo_path(d, p) ==
  IF ~isdir(d, p) THEN FALSE
  ELSE IF d[abspath(p)].git THEN TRUE
  ELSE d[abspath(p)].head /\ d[abspath(p)].objects

\* shutil.rmtree(p, ignore_errors=True): everything at or below p goes,
\* except what cannot be removed; the error is swallowed
rmtree(d, cannot, p) ==
  [q \in {x \in DOMAIN d : ~IsPrefix(abspath(p), x) \/ x \in cannot} |-> d[q]]

\* a directory appears (or is overwritten) at p
PutDir(d, p, attrs) ==
  [q \in DOMAIN d \cup {abspath(p)} |-> IF q = abspath(p) THEN attrs ELSE d[q]]

\* the ordered candidate list of prepare_repo_cache
candidates(local_dir, repo) ==
  << join(<<local_dir>>, <<Flat(repo)>>),
     join(<<local_dir>>, <<Flat(repo) \o ".git">>),
     join(<<local_dir>>, repo),
     WithSuffix(join(<<local_dir>>, repo), ".git"),
     join(<<local_dir>>, <<repo[Len(repo)]>>),
     join(<<local_dir>>, <<repo[Len(repo)] \o ".git">>) >>

\* faulty variant of FirstRepoPath: the last candidate that qualifies
LastRepoPath(d, cands) ==
  LET hits == {i \in 1..Len(cands) : is_git_repo_path(d, cands[i])}
  IN  IF hits = {} THEN <<>>
      ELSE cands[CHOOSE i \in hits : \A j \in hits : j <= i]

\* next((p for p in candidates if is_git_repo_path(p)), None); <<>> is None
FirstRepoPath(d, cands) ==
  LET hits == {i \in 1..Len(cands) : is_git_repo_path(d, cands[i])}
  IN  IF hits = {} THEN <<>>
      ELSE cands[CHOOSE i \in hits : \A j \in hits : i <= j]

\* layouts of the directory given as --local-cache-dir
EmptyDisk == [q \in {} |-> Plain]

LayoutBareName == PutDir(EmptyDisk, <<LocalRoot, "proj">>, WorkTree)

LayoutMixed ==
  PutDir(PutDir(PutDir(EmptyDisk,
    <<LocalRoot, "alice__proj.git">>, Bare),
    <<LocalRoot, "bob", "proj">>, HeadOnly),
    <<LocalRoot, "proj.git">>, Bare)

LocalLayouts == {EmptyDisk, LayoutBareName, LayoutMixed}

\* what a directory under --local-cache-dir may be: a clone with a working
\* tree, a bare repository, a directory with a HEAD file but no objects
RepoKinds == {WorkTree, Bare, HeadOnly}

\* the six places prepare_repo_cache looks at for alice/proj; the last two
\* are also the last two it looks at for bob/proj
LocalPaths ==
  {candidates(LocalRoot, <<"alice", "proj">>)[i] : i \in 1..6}

\* every layout with at most two of these directories, of whatever kind
LayoutsUpToTwo ==
  UNION {[{abspath(p) : p \in S} -> RepoKinds] :
           S \in {T \in SUBSET LocalPaths : Cardinality(T) <= 2}}

\* testbed/instance_id
StagingPath(task) == join(<<testbed>>, <<task.instance_id>>)

\* testbed/_cache
repo_cache_dir == join(<<testbed>>, <<"_cache">>)

(* --------------------------- version parsing -------------------------- *)

Digits == {"0", "1", "2", "3", "4", "5", "6", "7", "8", "9"}

Whitespace == {" ", "\n"}

\* what `git describe --tags` may print for a checked-out commit
Out_v2_3_1 == <<"v", "2", ".", "3", ".", "1", "\n">>
Out_weird == <<"w", "e", "i", "r", "d", "\n">>

DescribeOutputs == {Out_v2_3_1, Out_weird}

\* str.strip
strip(s) ==
  LET keep == {i \in 1..Len(s) : s[i] \notin Whitespace}
  IN  IF keep = {} THEN <<>>
      ELSE SubSeq(s, CHOOSE i \in keep : \A j \in keep : i <= j,
                     CHOOSE i \in keep : \A j \in keep : j <= i)

\* most calls of WriteDockerfileAgent.run_task on one agent
MaxRounds == 4

\* longest line `git describe --tags` prints, without its newline
MaxOut == 6

\* sequences over S of lengths 1..n
SeqsUpTo(S, n) == UNION {[1..k -> S] : k \in 1..n}

\* every line over a small alphabet, followed by the newline git prints
AllDescribeOutputs ==
  {line \o <<"\n">> : line \in SeqsUpTo({"v", "1", "2", "."}, MaxOut)}

\* the last index of the run of digits that starts at i
DigitRunEnd(s, i) ==
  CHOOSE k \in i..Len(s) :
    /\ \A j \in i..k : s[j] \in Digits
    /\ (k = Len(s) \/ s[k + 1] \notin Digits)

\* re.search(r"(\d+\.\d+)(?:\.\d+)?", s) at position i
MatchesAt(s, i) ==
  /\ s[i] \in Digits
  /\ LET e == DigitRunEnd(s, i)
     IN  e + 2 <= Len(s) /\ s[e + 1] = "." /\ s[e + 2] \in Digits

\* faulty variant of VersionGroup: match.group(0), the patch level included
VersionGroupWhole(s) ==
  LET starts == {i \in 1..Len(s) : MatchesAt(s, i)}
  IN  IF starts = {} THEN <<>>
      ELSE LET i == CHOOSE a \in starts : \A b \in starts : a <= b
               e == DigitRunEnd(s, DigitRunEnd(s, i) + 2)
           IN  IF e + 2 <= Len(s) /\ s[e + 1] = "." /\ s[e + 2] \in Digits
               THEN SubSeq(s, i, DigitRunEnd(s, e + 2))
               ELSE SubSeq(s, i, e)

\* match.group(1) of the leftmost match, <<>> when there is no match
VersionGroup(s) ==
  LET starts == {i \in 1..Len(s) : MatchesAt(s, i)}
  IN  IF starts = {} THEN <<>>
      ELSE LET i == CHOOSE a \in starts : \A b \in starts : a <= b
               e == DigitRunEnd(s, i)
           IN  SubSeq(s, i, DigitRunEnd(s, e + 2))

\* get_version_by_git, lines 45-50, on what git printed: the version, or
\* <<>> when RuntimeError is raised
ParseVersion(stdout) == VersionGroup(strip(stdout))

(* ------------------------------- state -------------------------------- *)

VARIABLES
  args,        \* the parsed command line
  input_file,  \* what the file at args.instance_path holds
  disk,        \* the directories that exist, by absolute path
  stuck,       \* directories the process is not able to remove
  pc,          \* where main is
  tasks,       \* main's list of task records
  idx,         \* the index of the for loop main is in
  repo_cache,  \* the dict of prepare_repo_cache, in insertion order
  resolutions, \* the repositories prepare_repo_cache probed or cloned, in order
  units,       \* per submitted task, the state of its process_repo_task call
  fut,         \* per submitted task, its Future
  worker,      \* per pool process, the task it is running (0: none)
  broken,      \* the pool saw one of its processes die
  results,     \* process_repos' results list
  failures,    \* process_repos' failures list
  files,       \* the artifacts save_results has written
  git_describe, \* the lines `git describe --tags` may print in this run
  safe_directory, \* the safe.directory lines of the user's global git config
  run_count,   \* WriteDockerfileAgent.run_count
  using_ubuntu_only, \* WriteDockerfileAgent.using_ubuntu_only
  dockerfiles, \* per directory under output_dir, the Dockerfile in it
  rounds       \* what each call of run_task did and returned, in order

vars == <<args, input_file, disk, stuck, pc, tasks, idx, repo_cache,
          resolutions, units, fut, worker, broken, results, failures, files,
          git_describe, safe_directory, run_count, using_ubuntu_only,
          dockerfiles, rounds>>

inputs == <<args, input_file, stuck, git_describe>>

agent == <<run_count, using_ubuntu_only, dockerfiles, rounds>>

pool == <<units, fut, worker, broken>>

required_keys == {"repo", "base_commit", "instance_id"}

\* faulty variant of CacheGet: a missing key falls back to the first entry
CacheGetOrAny(cache, repo) ==
  LET hits == {i \in 1..Len(cache) : cache[i].repo = repo}
  IN  IF hits # {} THEN cache[CHOOSE i \in hits : TRUE].path
      ELSE IF cache = <<>> THEN <<>> ELSE cache[1].path

\* dict lookup in repo_cache: the path, or <<>> for a missing key
CacheGet(cache, repo) ==
  LET hits == {i \in 1..Len(cache) : cache[i].repo = repo}
  IN  IF hits = {} THEN <<>> ELSE cache[CHOOSE i \in hits : TRUE].path

CacheHas(cache, repo) == \E i \in 1..Len(cache) : cache[i].repo = repo

\* faulty variant of CachePut: the dict is keyed by the bare repository name,
\* so a second owner's repository overwrites the first one's entry
CachePutByName(cache, repo, path) ==
  IF \E i \in 1..Len(cache) : cache[i].repo[Len(cache[i].repo)] = repo[Len(repo)]
  THEN [i \in 1..Len(cache) |->
          IF cache[i].repo[Len(cache[i].repo)] = repo[Len(repo)]
          THEN [repo |-> repo, path |-> path] ELSE cache[i]]
  ELSE Append(cache, [repo |-> repo, path |-> path])

\* repo_cache[repo] = path
CachePut(cache, repo, path) ==
  IF CacheHas(cache, repo)
  THEN [i \in 1..Len(cache) |->
          IF cache[i].repo = repo THEN [repo |-> repo, path |-> path] ELSE cache[i]]
  ELSE Append(cache, [repo |-> repo, path |-> path])

\* WriteDockerfileAgent.get_latest_write_dockerfile_output_dir, lines 171-175,
\* for a value of run_count: the directory output_dir/write_dockerfile_agent_N
get_latest_write_dockerfile_output_dir(count) == <<"write_dockerfile_agent", count>>

\* the directories of that form the model looks at
AgentDirs == {get_latest_write_dockerfile_output_dir(n) : n \in 0..MaxRounds}

\* a Dockerfile the writer generated in round n
Generated(n) == [by |-> "writer", round |-> n]

\* a Dockerfile that was in a directory before the agent was constructed
Stale == [by |-> "other", round |-> 0]

\* no agent has been constructed
NoAgent ==
  /\ run_count = 0
  /\ using_ubuntu_only = FALSE
  /\ dockerfiles = [d \in AgentDirs |-> <<>>]
  /\ rounds = <<>>

NoUnit == [pc |-> "queued", ops |-> <<>>, src |-> <<>>, ret |-> <<>>]

NoFuture == [state |-> "PENDING", exc |-> FALSE, yielded |-> FALSE]

Leftover == join(<<testbed>>, <<"i1">>)

ArgSets(paths, workers) ==
  [instance_path : paths, local_cache_dir : {"", LocalRoot},
   skip_missing_repo : BOOLEAN, max_workers : workers]

\* the state main starts in: the command line, the input file and the
\* directories present before the run
InitWith(argset, inputset, layouts, leftovers) ==
  /\ args \in argset
  /\ input_file \in inputset
  /\ \E layout \in layouts, left \in leftovers :
       /\ args.local_cache_dir = "" => layout = EmptyDisk
       /\ disk = [q \in DOMAIN layout \cup {abspath(x) : x \in left} |->
                    IF q \in DOMAIN layout THEN layout[q] ELSE Plain]
       /\ stuck \in SUBSET {abspath(x) : x \in left}
  /\ pc = "load"
  /\ tasks = <<>>
  /\ idx = 0
  /\ repo_cache = <<>>
  /\ resolutions = <<>>
  /\ units = <<>>
  /\ fut = <<>>
  /\ worker = [w \in 1..args.max_workers |-> 0]
  /\ broken = FALSE
  /\ results = <<>>
  /\ failures = <<>>
  /\ files = <<>>
  /\ safe_directory = <<>>
  /\ NoAgent

\* runs on one input path, over every batch, mode, layout and pool size
Init ==
  /\ InitWith({a \in ArgSets({P_d_t_jsonl}, 1..MaxWorkers) :
                 a.skip_missing_repo => a.local_cache_dir # ""},
              InputFiles, LocalLayouts, SUBSET {Leftover})
  /\ git_describe = DescribeOutputs

(* ------------------------------- main --------------------------------- *)

\* main, lines 171-175: tasks = get_instances(args.instance_path)
get_instances ==
  /\ pc = "load"
  /\ IF ~input_file.parses
     THEN pc' = "aborted" /\ tasks' = tasks
     ELSE pc' = "validate" /\ tasks' = input_file.records
  /\ UNCHANGED <<agent, inputs, safe_directory, disk, idx, repo_cache,
                 resolutions, pool, results, failures, files>>

\* faulty variant of Malformed: only the first record is looked at
MalformedFirst(ts) == ~(required_keys \subseteq DOMAIN ts[1])

\* the loop of lines 178-181 meets a record that lacks a required key
Malformed(ts) == \E i \in 1..Len(ts) : ~(required_keys \subseteq DOMAIN ts[i])

\* main, lines 177-181, and the head of prepare_repo_cache, lines 60-61
Validate ==
  /\ pc = "validate"
  /\ IF Malformed(tasks)
     THEN /\ pc' = "aborted"
          /\ UNCHANGED <<disk, idx, repo_cache>>
     ELSE /\ pc' = "prepare"
          /\ idx' = 1
          /\ repo_cache' = <<>>
          /\ disk' = IF isdir(disk, repo_cache_dir) THEN disk
                     ELSE PutDir(disk, repo_cache_dir, Plain)
  /\ UNCHANGED <<agent, inputs, safe_directory, tasks, resolutions, pool,
                 results, failures, files>>

\* one iteration of the loop of prepare_repo_cache, lines 62-94
prepare_repo_cache ==
  /\ pc = "prepare"
  /\ idx <= Len(tasks)
  /\ LET repo == tasks[idx].repo
         found == FirstRepoPath(disk, candidates(args.local_cache_dir, repo))
         clone_to == join(repo_cache_dir, <<Flat(repo)>>)
     IN  IF CacheHas(repo_cache, repo)
         THEN UNCHANGED <<repo_cache, resolutions, disk>>
         ELSE IF args.local_cache_dir # ""
         THEN /\ repo_cache' = IF found # <<>>
                               THEN CachePut(repo_cache, repo, abspath(found))
                               ELSE repo_cache
              /\ resolutions' = Append(resolutions, repo)
              /\ disk' = disk
         ELSE /\ resolutions' = Append(resolutions, repo)
              /\ \E cloned \in BOOLEAN :
                   IF cloned /\ ~exists(disk, clone_to)
                   THEN /\ disk' = PutDir(disk, clone_to, WorkTree)
                        /\ repo_cache' = CachePut(repo_cache, repo, clone_to)
                   ELSE UNCHANGED <<repo_cache, disk>>
  /\ idx' = idx + 1
  /\ UNCHANGED <<agent, inputs, safe_directory, pc, tasks, pool, results,
                 failures, files>>

\* faulty variant of PrepareFinished: the loop is left after its first pass
PrepareFinishedEarly == idx > 1

\* the for loop of prepare_repo_cache is exhausted and line 95 returns
PrepareFinished == idx > Len(tasks)

\* faulty variant of Kept: the filter of line 192 is applied whether or not
\* --skip-missing-repo was given
KeptWhateverTheFlag == SelectSeq(tasks, LAMBDA t : CacheHas(repo_cache, t.repo))

\* main, lines 191-192: the tasks handed to process_repos
Kept ==
  IF args.local_cache_dir # "" /\ args.skip_missing_repo
  THEN SelectSeq(tasks, LAMBDA t : CacheHas(repo_cache, t.repo))
  ELSE tasks

\* main, lines 191-192, and the head of process_repos, lines 129-131
BeginProcessRepos ==
  /\ pc = "prepare"
  /\ PrepareFinished
  /\ LET kept == Kept
     IN  /\ tasks' = kept
         /\ pc' = IF kept = <<>> THEN "collect" ELSE "submit"
  /\ idx' = 1
  /\ disk' = IF isdir(disk, <<testbed>>) THEN disk
             ELSE PutDir(disk, <<testbed>>, Plain)
  /\ results' = <<>>
  /\ failures' = <<>>
  /\ units' = <<>>
  /\ fut' = <<>>
  /\ UNCHANGED <<agent, inputs, safe_directory, repo_cache, resolutions,
                 worker, broken, files>>

\* process_repos, lines 132-134: one executor.submit of the comprehension;
\* submit raises BrokenProcessPool once the pool is broken
Submit ==
  /\ pc = "submit"
  /\ IF broken
     THEN /\ pc' = "raised"
          /\ UNCHANGED <<idx, units, fut>>
     ELSE /\ units' = Append(units, NoUnit)
          /\ fut' = Append(fut, NoFuture)
          /\ idx' = idx + 1
          /\ pc' = IF idx = Len(tasks) THEN "collect" ELSE "submit"
  /\ UNCHANGED <<agent, inputs, safe_directory, disk, tasks, repo_cache,
                 resolutions, worker, broken, results, failures, files>>

(* ------------------------- process_repo_task -------------------------- *)

Busy(w) == w \in DOMAIN worker /\ worker[w] # 0

At(w, where) == Busy(w) /\ units[worker[w]].pc = where

\* the unit of worker w moves on: its record changes, nothing else of the pool
Step(w, next, op, src, ret) ==
  /\ units' = [units EXCEPT ![worker[w]] =
                 [pc |-> next,
                  ops |-> IF op = "" THEN @.ops ELSE Append(@.ops, op),
                  src |-> src,
                  ret |-> ret]]
  /\ UNCHANGED <<fut, worker, broken>>

\* faulty variant of run_command_raises: subprocess.run without check=True
run_command_unchecked(ok) == FALSE

\* run_command, lines 20-25: a command that fails raises CalledProcessError
run_command_raises(ok) == ~ok

\* the entry of the log for a step that was attempted
Logged(op, ok) == IF ok THEN op ELSE op \o " failed"

\* Step with more than one entry for the log
StepLogging(w, next, oplist, src, ret) ==
  /\ units' = [units EXCEPT ![worker[w]] =
                 [pc |-> next, ops |-> @.ops \o oplist, src |-> src, ret |-> ret]]
  /\ UNCHANGED <<fut, worker, broken>>

\* faulty variant of Idle: a pool process takes a call while it runs one
IdleOrNot(w) == TRUE

\* pool process w is waiting for a call
Idle(w) == worker[w] = 0

\* a pool process takes the oldest queued call and runs lines 98-103
UnitBegin(w) ==
  /\ pc \in {"submit", "collect"}
  /\ ~broken
  /\ Idle(w)
  /\ \E t \in 1..Len(units) :
       /\ units[t].pc = "queued"
       /\ \A u \in 1..(t - 1) : units[u].pc # "queued"
       /\ LET repo_dir == StagingPath(tasks[t])
              leftover == exists(disk, repo_dir)
          IN  /\ disk' = IF leftover THEN rmtree(disk, stuck, repo_dir) ELSE disk
              /\ units' = [units EXCEPT ![t] =
                             [@ EXCEPT !.pc = "materialise",
                                       !.ops = IF leftover THEN <<"rmtree">> ELSE <<>>]]
       /\ fut' = [fut EXCEPT ![t].state = "RUNNING"]
       /\ worker' = [worker EXCEPT ![w] = t]
  /\ UNCHANGED <<agent, inputs, safe_directory, pc, tasks, idx, repo_cache,
                 resolutions, broken, results, failures, files>>

\* lines 106-113: the cache lookup, then copytree or git clone
Materialise(w) ==
  /\ At(w, "materialise")
  /\ LET task == tasks[worker[w]]
         repo_dir == StagingPath(task)
         cached_repo == CacheGet(repo_cache, task.repo)
     IN  IF cached_repo = <<>> \/ ~exists(disk, cached_repo)
         THEN /\ Step(w, "cleanup", "", <<>>, <<>>)
              /\ disk' = disk
         ELSE IF disk[abspath(cached_repo)].git
         THEN \E ok \in BOOLEAN :
                IF ok
                THEN /\ Step(w, "config", "copytree", cached_repo, <<>>)
                     /\ disk' = PutDir(disk, repo_dir, disk[abspath(cached_repo)])
                ELSE /\ Step(w, "cleanup", "copytree failed", cached_repo, <<>>)
                     /\ disk' = IF exists(disk, repo_dir) THEN disk
                                ELSE PutDir(disk, repo_dir, Plain)
         ELSE \E ok \in BOOLEAN :
                LET cloned == ok /\ ~exists(disk, repo_dir)
                IN  /\ Step(w, IF run_command_raises(cloned) THEN "cleanup"
                                ELSE "config",
                            Logged("clone", cloned), cached_repo, <<>>)
                    /\ disk' = IF cloned THEN PutDir(disk, repo_dir, WorkTree)
                               ELSE disk
  /\ UNCHANGED <<agent, inputs, safe_directory, pc, tasks, idx, repo_cache,
                 resolutions, results, failures, files>>

\* line 115: git config --global --add safe.directory repo_dir
Config(w) ==
  /\ At(w, "config")
  /\ \E ok \in BOOLEAN :
       /\ Step(w, IF run_command_raises(ok) THEN "cleanup" ELSE "checkout",
               Logged("config", ok), units[worker[w]].src, <<>>)
       /\ safe_directory' =
            IF ok THEN Append(safe_directory, StagingPath(tasks[worker[w]]))
            ELSE safe_directory
  /\ UNCHANGED <<agent, inputs, disk, pc, tasks, idx, repo_cache,
                 resolutions, results, failures, files>>

\* lines 116-117: cd(repo_dir), then git checkout base_commit
Checkout(w) ==
  /\ At(w, "checkout")
  /\ LET repo_dir == StagingPath(tasks[worker[w]])
         src == units[worker[w]].src
     IN  IF ~isdir(disk, repo_dir)
         THEN Step(w, "cleanup", "", src, <<>>)
         ELSE \E ok \in BOOLEAN :
                Step(w, IF run_command_raises(ok) THEN "cleanup" ELSE "describe",
                     Logged("checkout", ok), src, <<>>)
  /\ UNCHANGED <<agent, inputs, safe_directory, disk, pc, tasks, idx,
                 repo_cache, resolutions, results, failures, files>>

\* faulty variant of WithVersion: the result is built from the required
\* keys instead of being a copy of the record
WithVersionFromKeys(task, version) ==
  [k \in required_keys \cup {"version"} |->
     IF k = "version" THEN version ELSE task[k]]

\* task.copy() with result["version"] = version, lines 119-120
WithVersion(task, version) ==
  [k \in DOMAIN task \cup {"version"} |->
     IF k = "version" THEN version ELSE task[k]]

\* get_version_by_git, lines 40-50, and lines 118-121
get_version_by_git(w) ==
  /\ At(w, "describe")
  /\ LET task == tasks[worker[w]]
         cloned_dir == StagingPath(task)
         src == units[worker[w]].src
     IN  IF ~isdir(disk, cloned_dir)
         THEN Step(w, "cleanup", "", src, <<>>)
         ELSE \E ok \in BOOLEAN :
                IF run_command_raises(ok)
                THEN Step(w, "cleanup", "describe failed", src, <<>>)
                ELSE \E stdout \in IF ok THEN git_describe ELSE {<<>>} :
                       LET version == ParseVersion(stdout)
                       IN  StepLogging(w, "cleanup",
                                       <<Logged("describe", ok),
                                         Logged("parse", version # <<>>)>>,
                                       src,
                                       IF version # <<>>
                                       THEN <<WithVersion(task, version)>>
                                       ELSE <<>>)
  /\ UNCHANGED <<agent, inputs, safe_directory, disk, pc, tasks, idx,
                 repo_cache, resolutions, results, failures, files>>

\* line 126 and the return: the directory is removed, the future is set
Cleanup(w) ==
  /\ At(w, "cleanup")
  /\ LET t == worker[w]
     IN  /\ disk' = rmtree(disk, stuck, StagingPath(tasks[t]))
         /\ units' = [units EXCEPT ![t].pc = "returned",
                                   ![t].ops = Append(@, "cleanup")]
         /\ fut' = [fut EXCEPT ![t].state = "FINISHED"]
         /\ worker' = [worker EXCEPT ![w] = 0]
  /\ UNCHANGED <<agent, inputs, safe_directory, pc, tasks, idx, repo_cache,
                 resolutions, broken, results, failures, files>>

(* --------------------------- the process pool ------------------------- *)

\* the process of worker w dies inside a call: the executor marks itself
\* broken, fails every future that is not finished with BrokenProcessPool
\* and terminates the other pool processes
Crash(w) ==
  /\ pc \in {"submit", "collect"}
  /\ ~broken
  /\ Busy(w)
  /\ broken' = TRUE
  /\ units' = [t \in 1..Len(units) |->
                 IF t = worker[w] THEN [units[t] EXCEPT !.pc = "crashed"]
                 ELSE IF units[t].pc \notin {"queued", "returned"}
                 THEN [units[t] EXCEPT !.pc = "killed"]
                 ELSE units[t]]
  /\ fut' = [t \in 1..Len(fut) |->
               IF fut[t].state # "FINISHED"
               THEN [fut[t] EXCEPT !.state = "FINISHED", !.exc = TRUE]
               ELSE fut[t]]
  /\ worker' = [v \in DOMAIN worker |-> 0]
  /\ UNCHANGED <<agent, inputs, safe_directory, disk, pc, tasks, idx,
                 repo_cache, resolutions, results, failures, files>>

\* bool(result) of what future.result() returned
Truthy(ret) == ret # <<>> /\ DOMAIN ret[1] # {}

\* faulty variant of Gathered: the else branch of line 141 is missing, so a
\* task whose unit returned None is recorded nowhere
GatheredLosingNone(t) ==
  IF fut[t].exc THEN <<results, Append(failures, tasks[t])>>
  ELSE IF Truthy(units[t].ret) THEN <<Append(results, units[t].ret[1]), failures>>
  ELSE <<results, failures>>

\* lines 137-145: the two lists after the future of task t is handled
Gathered(t) ==
  IF fut[t].exc THEN <<results, Append(failures, tasks[t])>>
  ELSE IF Truthy(units[t].ret) THEN <<Append(results, units[t].ret[1]), failures>>
  ELSE <<results, Append(failures, tasks[t])>>

\* process_repos, lines 135-145: one iteration of the as_completed loop
Collect(t) ==
  /\ pc = "collect"
  /\ t \in 1..Len(fut)
  /\ fut[t].state = "FINISHED"
  /\ ~fut[t].yielded
  /\ fut' = [fut EXCEPT ![t].yielded = TRUE]
  /\ results' = Gathered(t)[1]
  /\ failures' = Gathered(t)[2]
  /\ UNCHANGED <<agent, inputs, safe_directory, disk, pc, tasks, idx,
                 repo_cache, resolutions, units, worker, broken, files>>

(* ------------------------------ the output ---------------------------- *)

\* os.makedirs(os.path.dirname(output_path), exist_ok=True) raises
\* FileNotFoundError for the empty path
MakedirsRaises(output_path) == dirname(output_path) = <<>>

\* save_results, lines 150-156: the file written at output_path
save_results(written, rs, output_path) ==
  [q \in DOMAIN written \cup {output_path} |->
     IF q = output_path
     THEN [style |-> StyleOf(output_path), records |-> rs]
     ELSE written[q]]

AllYielded ==
  /\ Len(fut) = Len(tasks)
  /\ \A t \in 1..Len(fut) : fut[t].yielded

\* process_repos returns (line 146); main, lines 196-198
SaveVersions ==
  /\ pc = "collect"
  /\ AllYielded
  /\ LET output_path == generate_output_path(args.instance_path, SuffixVersions)
     IN  IF MakedirsRaises(output_path)
         THEN pc' = "raised" /\ files' = files
         ELSE /\ files' = save_results(files, results, output_path)
              /\ pc' = "save_failures"
  /\ UNCHANGED <<agent, inputs, safe_directory, disk, tasks, idx, repo_cache,
                 resolutions, pool, results, failures>>

\* main, lines 200-203
SaveFailures ==
  /\ pc = "save_failures"
  /\ LET fail_path == generate_output_path(args.instance_path, SuffixFailures)
     IN  IF failures = <<>>
         THEN pc' = "done" /\ files' = files
         ELSE IF MakedirsRaises(fail_path)
         THEN pc' = "raised" /\ files' = files
         ELSE /\ files' = save_results(files, failures, fail_path)
              /\ pc' = "done"
  /\ UNCHANGED <<agent, inputs, safe_directory, disk, tasks, idx, repo_cache,
                 resolutions, pool, results, failures>>

(* ------------------------ WriteDockerfileAgent ------------------------ *)

\* faulty variant of Fallback: nothing is copied
NoFallback(held, prev_file, dockerfile_path) == held

\* run_task, lines 147-151: when there is no Dockerfile in the current
\* directory and there is one in the previous directory, it is copied
Fallback(held, prev_file, dockerfile_path) ==
  IF held[dockerfile_path] = <<>> /\ held[prev_file] # <<>>
  THEN [held EXCEPT ![dockerfile_path] = held[prev_file]]
  ELSE held

\* WriteDockerfileAgent.run_task, lines 111-162.  The writer called at lines
\* 138-143 leaves a Dockerfile in the directory it is given, or does not.
run_task ==
  /\ run_count < MaxRounds
  /\ LET prev_dir == get_latest_write_dockerfile_output_dir(run_count)
         curr_dir == get_latest_write_dockerfile_output_dir(run_count + 1)
         prompt == IF dockerfiles[prev_dir] # <<>> THEN "modify"
                   ELSE IF using_ubuntu_only THEN "init_using_ubuntu_only"
                   ELSE "init"
     IN  \E produced \in BOOLEAN :
           LET written == IF produced
                          THEN [dockerfiles EXCEPT
                                  ![curr_dir] = <<Generated(run_count + 1)>>]
                          ELSE dockerfiles
               is_ok == written[curr_dir] # <<>>
           IN  /\ run_count' = run_count + 1
               /\ dockerfiles' = Fallback(written, prev_dir, curr_dir)
               /\ rounds' = Append(rounds,
                                   [prev_dir |-> prev_dir,
                                    curr_dir |-> curr_dir,
                                    found |-> dockerfiles[curr_dir],
                                    prompt |-> prompt,
                                    produced |-> produced,
                                    is_ok |-> is_ok])
  /\ UNCHANGED using_ubuntu_only
  /\ UNCHANGED <<inputs, safe_directory, disk, pc, tasks, idx, repo_cache,
                 resolutions, pool, results, failures, files>>

(* --------------------------- specification ---------------------------- *)

Workers == 1..MaxWorkers

TaskIndexes == 1..MaxTasks

main ==
  \/ get_instances
  \/ Validate
  \/ prepare_repo_cache
  \/ BeginProcessRepos
  \/ Submit
  \/ SaveVersions
  \/ SaveFailures

process_repo_task(w) ==
  \/ UnitBegin(w)
  \/ Materialise(w)
  \/ Config(w)
  \/ Checkout(w)
  \/ get_version_by_git(w)
  \/ Cleanup(w)

Next ==
  \/ main
  \/ \E w \in Workers : w \in DOMAIN worker /\ process_repo_task(w)
  \/ \E w \in Workers : Crash(w)
  \/ \E t \in TaskIndexes : Collect(t)

Spec == Init /\ [][Next]_vars

\* runs over every input path, with one pool process and no leftovers
SpecIO ==
  /\ InitWith(ArgSets(InstancePaths, {1}), InputFiles,
              {EmptyDisk, LayoutBareName}, {{}})
  /\ git_describe = DescribeOutputs
  /\ [][Next]_vars

\* a record that carries a field the pipeline does not know
RecordWithExtra ==
  [instance_id |-> "i2", repo |-> <<"bob", "proj">>, base_commit |-> "c1",
   created_at |-> "2024"]

\* batches over one task per repository
LocalBatches ==
  UNION {[1..n -> {Record("i1", <<"alice", "proj">>), RecordWithExtra}] :
           n \in 1..MaxTasks}

\* runs with --local-cache-dir over every layout of up to two directories,
\* with one pool process
SpecLocal ==
  /\ InitWith({a \in ArgSets({P_d_t_jsonl}, {1}) : a.local_cache_dir # ""},
              {[parses |-> TRUE, records |-> b] : b \in LocalBatches},
              LayoutsUpToTwo, {{}})
  /\ git_describe = DescribeOutputs
  /\ [][Next]_vars

\* runs of one task whose repository is a local clone, over every line git
\* describe may print
SpecDescribe ==
  /\ InitWith({a \in ArgSets({P_d_t_jsonl}, {1}) :
                 a.local_cache_dir # "" /\ ~a.skip_missing_repo},
              {[parses |-> TRUE, records |-> <<Record("i1", <<"alice", "proj">>)>>]},
              {LayoutBareName}, {{}})
  /\ \E stdout \in AllDescribeOutputs : git_describe = {stdout}
  /\ [][Next]_vars

\* a record whose instance_id is the name of the cache directory
RecordNamedCache == Record("_cache", <<"alice", "proj">>)

\* batches in which that record may occur
CacheNameBatches ==
  UNION {[1..n -> {RecordNamedCache, Record("i2", <<"bob", "proj">>)}] :
           n \in 1..MaxTasks}

\* runs that clone into testbed/_cache, on batches in which an instance_id
\* may be "_cache"
SpecAlias ==
  /\ InitWith({a \in ArgSets({P_d_t_jsonl}, 1..MaxWorkers) :
                 a.local_cache_dir = "" /\ ~a.skip_missing_repo},
              {[parses |-> TRUE, records |-> b] : b \in CacheNameBatches},
              {EmptyDisk}, {{}})
  /\ git_describe = DescribeOutputs
  /\ [][Next]_vars

\* the state after WriteDockerfileAgent.__init__, lines 24-34, with whatever
\* Dockerfiles the directories under output_dir held before
AgentConstructed ==
  /\ run_count = 0
  /\ using_ubuntu_only \in BOOLEAN
  /\ dockerfiles \in [AgentDirs -> {<<>>, <<Stale>>}]
  /\ rounds = <<>>

\* the pipeline of get_version.py is not run
MainNotRun ==
  /\ args = [instance_path |-> P_d_t_jsonl, local_cache_dir |-> "",
             skip_missing_repo |-> FALSE, max_workers |-> 1]
  /\ input_file = Garbage
  /\ git_describe = {}
  /\ disk = EmptyDisk
  /\ stuck = {}
  /\ pc = "aborted"
  /\ tasks = <<>>
  /\ idx = 0
  /\ repo_cache = <<>>
  /\ resolutions = <<>>
  /\ units = <<>>
  /\ fut = <<>>
  /\ worker = <<0>>
  /\ broken = FALSE
  /\ results = <<>>
  /\ failures = <<>>
  /\ files = <<>>
  /\ safe_directory = <<>>

\* sequences of calls of run_task on one agent
\* an agent constructed and nothing else run
InitAgent ==
  /\ MainNotRun
  /\ AgentConstructed

SpecAgent == InitAgent /\ [][run_task]_vars

(* ------------------------------ properties ---------------------------- *)

\* the number of entries of seq that satisfy Test
Count(seq, Test(_)) == Cardinality({i \in 1..Len(seq) : Test(seq[i])})

\* a success record without the field process_repo_task added
WithoutVersion(r) == [k \in DOMAIN r \ {"version"} |-> r[k]]

Range(seq) == {seq[i] : i \in 1..Len(seq)}

\* process_repos has returned its two lists to main
ProcessReposReturned ==
  /\ pc \in {"collect", "save_failures", "done", "raised"}
  /\ AllYielded

\* every record of `batch` is, as often as it occurs in `batch`, in exactly
\* one of the lists `ok` (with a version attached) and `bad` (as it was)
Partitioned(batch, ok, bad) ==
  /\ Len(ok) + Len(bad) = Len(batch)
  /\ \A r \in Range(batch) :
       Count(batch, LAMBDA x : x = r)
         = Count(ok, LAMBDA x : WithoutVersion(x) = r) + Count(bad, LAMBDA x : x = r)

\* C1: when process_repos returns, every submitted task is counted in
\* exactly one of results and failures, whatever the outcome of its unit
\* (a version, None, or an exception out of the future) and whatever the
\* order of completion.
C1_ExactlyOneList == ProcessReposReturned => Partitioned(tasks, results, failures)

\* C1 witness: process_repos has returned a result for one task and a
\* failure for a task whose future raised
C1_Witness ==
  /\ ProcessReposReturned
  /\ Len(results) = 1
  /\ \E t \in 1..Len(fut) : fut[t].exc

\* the unit of task t is executing in a pool process
Running(t) ==
  units[t].pc \in {"materialise", "config", "checkout", "describe", "cleanup"}

WellFormedInput ==
  /\ input_file.parses
  /\ \A i \in 1..Len(input_file.records) :
       required_keys \subseteq DOMAIN input_file.records[i]

\* the records an artifact of this run holds; none when it was not written
Artifact(suffix) ==
  LET q == generate_output_path(args.instance_path, suffix)
  IN  IF q \in DOMAIN files THEN files[q].records ELSE <<>>

\* the input records other than those whose repository has no cache entry
\* while skip_missing_repo is set together with local_cache_dir
NotSkipped ==
  IF args.local_cache_dir # "" /\ args.skip_missing_repo
  THEN SelectSeq(input_file.records, LAMBDA r : CacheHas(repo_cache, r.repo))
  ELSE input_file.records

\* C2: after a whole run of main on a well-formed input, every input record
\* that was not skipped for a missing local repository is in exactly one of
\* the two artifacts the run wrote.  (Stated for the runs in which no pool
\* process died.)
C2_EveryRecordInOneArtifact ==
  (WellFormedInput /\ pc \in {"done", "raised"} /\ ~broken)
    => Partitioned(NotSkipped, Artifact(SuffixVersions), Artifact(SuffixFailures))

\* C3: no two units of process_repo_task that are running at the same time
\* use the same staging path testbed/instance_id.
C3_NoSharedStaging ==
  \A t1, t2 \in 1..Len(units) :
    (t1 # t2 /\ Running(t1) /\ Running(t2))
      => StagingPath(tasks[t1]) # StagingPath(tasks[t2])

\* C4: staging cleanup is unconditional, so once the run has completed the
\* staging directory of no task exists.  (Stated for the runs that start
\* with no directory the process is unable to remove.)
C4_NoStagingAfterRun ==
  (pc = "done" /\ stuck = {})
    => \A t \in 1..Len(tasks) : ~exists(disk, StagingPath(tasks[t]))

\* C5: when the pool process running one task dies, that task and only that
\* task fails because of it: no other task's future raises.
C5_OnlyCrashedTaskFails ==
  \A t \in 1..Len(fut) : fut[t].exc => units[t].pc = "crashed"

\* C6: when two distinct repository names are mapped to one local path, no
\* task of the repository resolved second is given a version, and each ends
\* in failures.
C6_CollisionFails ==
  \A i, j \in 1..Len(repo_cache) :
    (i < j /\ repo_cache[i].path = repo_cache[j].path)
      => \A t \in 1..Len(units) :
           tasks[t].repo = repo_cache[j].repo
             => /\ units[t].ret = <<>>
                /\ fut[t].yielded => tasks[t] \in Range(failures)

OnePathPerRepo(cache) ==
  \A i, j \in 1..Len(cache) : i # j => cache[i].repo # cache[j].repo

\* C7: RepoCache holds at most one path per repository name, an entry is
\* never changed or removed once inserted, and nothing modifies the mapping
\* while the pool is at work.
C7_CacheEntriesStable ==
  [][/\ OnePathPerRepo(repo_cache) /\ OnePathPerRepo(repo_cache')
     /\ \A i \in 1..Len(repo_cache) :
          i <= Len(repo_cache') /\ repo_cache'[i] = repo_cache[i]
     /\ pc \in {"submit", "collect"} => repo_cache' = repo_cache]_vars

\* C7 witness: a finished run in which two tasks referenced one repository
\* and one of them got its version from the single entry
C7_Witness ==
  /\ pc = "done"
  /\ Len(tasks) = 2
  /\ tasks[1].repo = tasks[2].repo
  /\ Len(repo_cache) = 1
  /\ results # <<>>

\* C8: no unit of process_repo_task exists or runs before prepare_repo_cache
\* has resolved every repository of the batch.
C8_Barrier ==
  (units # <<>> \/ \E w \in DOMAIN worker : worker[w] # 0)
    => \A i \in 1..Len(input_file.records) :
         input_file.records[i].repo \in Range(resolutions)

\* C8 witness: a unit is at work on a batch of two repositories
C8_Witness ==
  /\ Len(resolutions) = 2
  /\ \E t \in 1..Len(units) : Running(t)

\* C9: a task whose repository has no RepoCache entry fails at once: nothing
\* is materialised, no clone, config, checkout or describe is issued for it,
\* its original record is what lands in failures, and no success record
\* belongs to it.
C9_MissingEntryFailsFast ==
  \A t \in 1..Len(units) :
    ~CacheHas(repo_cache, tasks[t].repo)
      => /\ Range(units[t].ops) \subseteq {"rmtree", "cleanup"}
         /\ units[t].src = <<>>
         /\ units[t].ret = <<>>
         /\ fut[t].yielded => \E i \in 1..Len(failures) : failures[i] = tasks[t]
         /\ \A i \in 1..Len(results) : results[i].repo # tasks[t].repo

\* C9 witness: a finished local-cache run, without skip_missing_repo, whose
\* failures hold a task of a repository that was not found
C9_Witness ==
  /\ pc = "done"
  /\ args.local_cache_dir # ""
  /\ ~args.skip_missing_repo
  /\ \E t \in 1..Len(units) :
       /\ ~CacheHas(repo_cache, tasks[t].repo)
       /\ fut[t].yielded
       /\ ~fut[t].exc

\* C10: both artifacts are written in the serialization style the input was
\* read in.
C10_SameStyleAsInput ==
  \A q \in DOMAIN files : files[q].style = StyleOf(args.instance_path)

\* C11: validation is eager and fatal.  When the input cannot be parsed or
\* any of its records, at whatever position, lacks one of repo, base_commit,
\* instance_id, main never gets past validation: no repository is probed or
\* cloned, no cache directory is made, no unit is queued or started, and no
\* artifact is written.
C11_EagerValidation ==
  ~WellFormedInput
    => /\ pc \in {"load", "validate", "aborted"}
       /\ resolutions = <<>>
       /\ repo_cache = <<>>
       /\ ~exists(disk, repo_cache_dir)
       /\ units = <<>>
       /\ \A w \in DOMAIN worker : worker[w] = 0
       /\ results = <<>> /\ failures = <<>>
       /\ files = <<>>

\* C11 witness: the run was aborted on a batch whose first record is well
\* formed and whose second record lacks a key
C11_Witness ==
  /\ pc = "aborted"
  /\ input_file.parses
  /\ Len(input_file.records) = 2
  /\ required_keys \subseteq DOMAIN input_file.records[1]
  /\ ~(required_keys \subseteq DOMAIN input_file.records[2])

\* one of the six candidate directories of `repo` is a repository
FoundLocally(repo) ==
  \E i \in 1..6 : is_git_repo_path(disk, candidates(args.local_cache_dir, repo)[i])

\* main has called process_repos
ProcessReposCalled == pc \in {"submit", "collect", "save_failures", "done", "raised"}

\* r is in one of the two lists or in an artifact
Reported(r) ==
  \/ r \in Range(failures)
  \/ \E i \in 1..Len(results) : WithoutVersion(results[i]) = r
  \/ \E q \in DOMAIN files :
       \E i \in 1..Len(files[q].records) : WithoutVersion(files[q].records[i]) = r

\* C12: with local_cache_dir set.  When skip_missing_repo is set, the tasks
\* handed to process_repos are the input tasks whose repository was found
\* locally, in input order, and a task whose repository was not found is
\* never scheduled and is in neither list and neither artifact.  When it is
\* not set, every input task is handed over and scheduled, none whose
\* repository was not found is given a version, each is in failures once its
\* future was handled, and in the failures artifact once the run is done.
C12_SkipMissingRepo ==
  (args.local_cache_dir # "" /\ ProcessReposCalled)
    => IF args.skip_missing_repo
       THEN /\ tasks = SelectSeq(input_file.records,
                                 LAMBDA r : FoundLocally(r.repo))
            /\ \A r \in Range(input_file.records) :
                 ~FoundLocally(r.repo) => ~Reported(r)
       ELSE /\ tasks = input_file.records
            /\ pc # "submit" /\ pc # "raised" => Len(units) = Len(tasks)
            /\ \A i \in 1..Len(results) : FoundLocally(results[i].repo)
            /\ \A t \in 1..Len(fut) :
                 (~FoundLocally(tasks[t].repo) /\ fut[t].yielded)
                   => tasks[t] \in Range(failures)
            /\ pc = "done"
                 => \A t \in 1..Len(tasks) :
                      ~FoundLocally(tasks[t].repo)
                        => tasks[t] \in Range(Artifact(SuffixFailures))

\* C12 witness: a finished run with skip_missing_repo on a batch of two
\* tasks, of which the one whose repository was not found was dropped and
\* the other one was given a version
C12_Witness ==
  /\ pc = "done"
  /\ args.skip_missing_repo
  /\ Len(input_file.records) = 2
  /\ Len(tasks) = 1
  /\ Len(results) = 1
  /\ ~FoundLocally(input_file.records[1].repo)

\* C12 witness without the flag: a finished run whose failures artifact
\* holds the task of a repository that was not found, next to a success
C12_WitnessKept ==
  /\ pc = "done"
  /\ ~args.skip_missing_repo
  /\ Len(results) = 1
  /\ \E t \in 1..Len(tasks) :
       ~FoundLocally(tasks[t].repo) /\ tasks[t] \in Range(Artifact(SuffixFailures))

\* r is record `task` with the field version set and nothing else changed
CopyWithVersion(r, task) ==
  /\ DOMAIN r = DOMAIN task \cup {"version"}
  /\ \A k \in DOMAIN task \ {"version"} : r[k] = task[k]
  /\ r.version # <<>>

\* C13: processing never mutates a task record.  Every success record is a
\* copy of the record of one of the tasks with the one field version set and
\* every other field as in the original; every record in failures is the
\* record of one of the tasks, field by field, with no version added; the
\* artifacts hold these records; and the task list of the caller is, during
\* and after process_repos, the list of input records it was called with.
C13_RecordsNotMutated ==
  ProcessReposCalled
    => /\ \A i \in 1..Len(results) :
            \E t \in 1..Len(tasks) : CopyWithVersion(results[i], tasks[t])
       /\ \A i \in 1..Len(failures) :
            \E t \in 1..Len(tasks) :
              /\ failures[i] = tasks[t]
              /\ DOMAIN failures[i] = DOMAIN tasks[t]
       /\ \A q \in DOMAIN files : files[q].records \in {results, failures}
       /\ \A t \in 1..Len(tasks) : tasks[t] \in Range(input_file.records)
       /\ ~(args.local_cache_dir # "" /\ args.skip_missing_repo)
            => tasks = input_file.records

\* C13 witness: a finished run with a success record for the task that
\* carries an extra field, and a failure
C13_Witness ==
  /\ pc = "done"
  /\ failures # <<>>
  /\ \E i \in 1..Len(results) : "created_at" \in DOMAIN results[i]

\* v is <major>.<minor>: two nonempty groups of digits joined by one dot
IsMajorMinor(v) ==
  \E k \in 2..(Len(v) - 1) :
    /\ v[k] = "."
    /\ \A j \in 1..Len(v) : j # k => v[j] \in Digits

\* the places of s that read <major>.<minor>
MajorMinorAt(s) ==
  {p \in (1..Len(s)) \X (1..Len(s)) :
     p[1] <= p[2] /\ IsMajorMinor(SubSeq(s, p[1], p[2]))}

\* the leftmost <major>.<minor> of s, each group taken as long as it is
LeftmostMajorMinor(s) ==
  LET p == CHOOSE a \in MajorMinorAt(s) :
             \A b \in MajorMinorAt(s) :
               a[1] < b[1] \/ (a[1] = b[1] /\ a[2] >= b[2])
  IN  SubSeq(s, p[1], p[2])

\* C14: for every line git describe prints.  If the line holds a
\* <major>.<minor>[.<patch>], the unit returns the record with version
\* exactly that "<major>.<minor>" and the record lands in results; if it
\* holds none, the unit returns nothing and the task lands in failures; and
\* no success record carries a version that is not two groups of digits
\* joined by one dot.
C14_VersionIsMajorMinor ==
  /\ \A i \in 1..Len(results) : IsMajorMinor(results[i].version)
  /\ \A t \in 1..Len(units) :
       Range(units[t].ops) \cap {"parse", "parse failed"} # {}
         => \A stdout \in git_describe :
              IF MajorMinorAt(stdout) # {}
              THEN /\ units[t].ret # <<>>
                   /\ units[t].ret[1].version = LeftmostMajorMinor(stdout)
                   /\ (fut[t].yielded /\ ~fut[t].exc)
                        => units[t].ret[1] \in Range(results)
              ELSE /\ units[t].ret = <<>>
                   /\ fut[t].yielded => tasks[t] \in Range(failures)

\* C14 witness: a finished run in which git printed a line with a patch
\* level after text, and the task is in results
C14_Witness ==
  /\ pc = "done"
  /\ git_describe = {<<"v", "1", ".", "2", ".", "1", "\n">>}
  /\ Len(results) = 1

\* C14 witness of the other case: no <major>.<minor> in the line, the task
\* is in the failures artifact
C14_WitnessUnrecognized ==
  /\ pc = "done"
  /\ git_describe = {<<"v", "1", ".", "\n">>}
  /\ \E t \in 1..Len(units) : "parse failed" \in Range(units[t].ops)
  /\ Len(Artifact(SuffixFailures)) = 1

\* at most max_workers units are executing, each in one pool process, and
\* after a return of process_repos from a pool that lost no process every
\* unit has run through its cleanup once
BoundedPool ==
  /\ Cardinality({t \in 1..Len(units) : Running(t)}) <= args.max_workers
  /\ \A t \in 1..Len(units) :
       Running(t) => Cardinality({w \in DOMAIN worker : worker[w] = t}) = 1
  /\ (ProcessReposReturned /\ ~broken)
       => \A t \in 1..Len(tasks) :
            /\ units[t].pc = "returned"
            /\ Count(units[t].ops, LAMBDA op : op = "cleanup") = 1

\* how far a unit has come
Stage(unit) ==
  CASE unit.pc = "queued" -> 0
    [] unit.pc = "materialise" -> 1
    [] unit.pc = "config" -> 2
    [] unit.pc = "checkout" -> 3
    [] unit.pc = "describe" -> 4
    [] unit.pc = "cleanup" -> 5
    [] OTHER -> 6

\* C15: with max_workers = N, at every moment at most N units are
\* executing; a pool process takes a unit only when it has none and gives
\* it up only when the unit has run through its cleanup (or the pool has
\* lost a process); no unit is started twice or taken back to an earlier
\* step, so each unit is executed once.
C15_BoundedPool ==
  [][/\ BoundedPool /\ BoundedPool'
     /\ \A w \in DOMAIN worker :
          worker'[w] # worker[w]
            => \/ worker[w] = 0 /\ units[worker'[w]].pc = "queued"
               \/ /\ worker'[w] = 0
                  /\ units'[worker[w]].pc = "returned" \/ broken'
     /\ \A t \in 1..Len(units) :
          /\ Stage(units'[t]) >= Stage(units[t])
          /\ Stage(units[t]) = 6 => units'[t] = units[t]]_vars

\* C15 witness: the one pool process of a run with max_workers = 1 has run
\* the first unit through its cleanup and is executing the second
C15_Witness ==
  /\ args.max_workers = 1
  /\ Len(units) = 2
  /\ units[1].pc = "returned"
  /\ Running(2)

\* the five extraction steps in the order of lines 110-120, the working
\* copy being made by `how`
Extraction(how) == <<how, "config", "checkout", "describe", "parse">>

\* `log` is: the removal of a leftover directory or nothing; then the first
\* k steps of the extraction, of which only the last may have failed; then
\* the cleanup or nothing
InOrder(log) ==
  LET rest == IF log # <<>> /\ log[1] = "rmtree" THEN Tail(log) ELSE log
      body == IF rest # <<>> /\ rest[Len(rest)] = "cleanup"
              THEN SubSeq(rest, 1, Len(rest) - 1) ELSE rest
  IN  /\ Len(body) <= 5
      /\ \A i \in 1..Len(body) :
           LET step == IF i = 1 THEN {"copytree", "clone"}
                       ELSE {Extraction("copytree")[i]}
           IN  \/ body[i] \in step
               \/ i = Len(body) /\ body[i] \in {Logged(x, FALSE) : x \in step}

\* C16: within one unit the steps are issued in the order materialise, mark
\* trusted, checkout, describe, parse, each only after the one before it
\* succeeded; after a step that failed nothing is issued but the cleanup;
\* and only a unit all of whose five steps succeeded returns a record.
C16_StepsInOrder ==
  \A t \in 1..Len(units) :
    /\ InOrder(units[t].ops)
    /\ \A i \in 1..Len(units[t].ops) :
         units[t].ops[i] \in {"copytree failed", "clone failed", "config failed",
                              "checkout failed", "describe failed", "parse failed"}
           => /\ units[t].pc \in {"cleanup", "returned", "crashed", "killed"}
              /\ units[t].ret = <<>>
              /\ \A j \in (i + 1)..Len(units[t].ops) : units[t].ops[j] = "cleanup"
    /\ units[t].ret # <<>>
         => \E how \in {"copytree", "clone"}, pre \in {<<>>, <<"rmtree">>} :
              \/ units[t].ops = pre \o Extraction(how)
              \/ units[t].ops = pre \o Extraction(how) \o <<"cleanup">>

\* C16 witness: a unit whose checkout failed has returned after its cleanup
C16_Witness ==
  \E t \in 1..Len(units) :
    /\ units[t].pc = "returned"
    /\ \E how \in {"copytree", "clone"} :
         units[t].ops = <<how, "config", "checkout failed", "cleanup">>

\* C17: a step of the unit of task t changes nothing outside the staging
\* path of t: the cache mapping, every directory that is not at or below
\* that path (the cache entries and the staging directories of the other
\* tasks among them) and the user's global git configuration stay as they
\* are.
C17_EffectsConfined ==
  [][\A t \in 1..Len(units) :
       (t <= Len(units') /\ units'[t] # units[t])
         => /\ repo_cache' = repo_cache
            /\ \A q \in DOMAIN disk \cup DOMAIN disk' :
                 ~IsPrefix(abspath(StagingPath(tasks[t])), q)
                   => q \in DOMAIN disk /\ q \in DOMAIN disk' /\ disk'[q] = disk[q]
            /\ safe_directory' = safe_directory]_vars

\* C18: prepare_repo_cache probes or clones each repository of the batch at
\* most once, whatever the outcome of the first attempt.
C18_ResolvedOnce ==
  \A i, j \in 1..Len(resolutions) : i # j => resolutions[i] # resolutions[j]

\* the six places to look at for owner/name, in the order of C19
PlacesInOrder(repo) ==
  LET owner == repo[1]
      name == repo[2]
  IN  << <<LocalRoot, owner \o "__" \o name>>,
         <<LocalRoot, owner \o "__" \o name \o ".git">>,
         <<LocalRoot, owner, name>>,
         <<LocalRoot, owner, name \o ".git">>,
         <<LocalRoot, name>>,
         <<LocalRoot, name \o ".git">> >>

\* the directory at p has a .git subdirectory, or a HEAD file and an
\* objects directory
Qualifies(p) ==
  /\ <<"/", "cwd">> \o p \in DOMAIN disk
  /\ LET dir == disk[<<"/", "cwd">> \o p]
     IN  dir.git \/ (dir.head /\ dir.objects)

\* C19: in local-cache mode the entry of a repository is the first of the
\* six places, in the order flattened, flattened.git, nested, nested.git,
\* bare name, bare name.git, that is a repository; and a repository that was
\* looked for has no entry exactly when none of the six is one.
C19_FirstCandidateWins ==
  args.local_cache_dir # ""
    => /\ \A e \in 1..Len(repo_cache) :
            LET places == PlacesInOrder(repo_cache[e].repo)
            IN  \E i \in 1..6 :
                  /\ repo_cache[e].path = <<"/", "cwd">> \o places[i]
                  /\ Qualifies(places[i])
                  /\ \A j \in 1..(i - 1) : ~Qualifies(places[j])
       /\ \A r \in Range(resolutions) :
            CacheHas(repo_cache, r) <=> \E i \in 1..6 : Qualifies(PlacesInOrder(r)[i])

\* C19 witness: the repository at the bare name was passed over for the
\* one at the flattened name with .git
C19_Witness ==
  /\ Qualifies(<<LocalRoot, "proj">>)
  /\ \E e \in 1..Len(repo_cache) :
       repo_cache[e].path = <<"/", "cwd", LocalRoot, "alice__proj.git">>

\* C19 witness: a directory with a HEAD file and no objects directory at an
\* earlier place was passed over for the repository at a later place
C19_WitnessNotARepo ==
  /\ <<"/", "cwd", LocalRoot, "alice__proj">> \in DOMAIN disk
  /\ \E e \in 1..Len(repo_cache) :
       repo_cache[e].path = <<"/", "cwd", LocalRoot, "alice", "proj.git">>

\* C20: a unit that finds its staging path present and is unable to remove
\* it fails there: it issues no copy and no clone onto the leftover
\* directory, no later step, returns no record, and its task lands in
\* failures.
C20_LeftoverFailsUnit ==
  \A t \in 1..Len(units) :
    (abspath(StagingPath(tasks[t])) \in stuck /\ units[t].pc # "queued")
      => /\ Range(units[t].ops) \subseteq {"rmtree", "cleanup"}
         /\ units[t].ret = <<>>
         /\ fut[t].yielded => tasks[t] \in Range(failures)

\* one of the paths p and q is the other or lies inside it
Overlap(p, q) ==
  IsPrefix(abspath(p), abspath(q)) \/ IsPrefix(abspath(q), abspath(p))

\* C21: for every batch that passed validation, the staging path of no task
\* is, holds or lies inside the cache directory or the path of a RepoCache
\* entry, and every entry's repository stays on disk: no removal by a unit
\* deletes it.
C21_NoAliasing ==
  pc \notin {"load", "validate", "aborted"}
    => /\ \A t \in 1..Len(tasks) :
            /\ ~Overlap(StagingPath(tasks[t]), repo_cache_dir)
            /\ \A e \in 1..Len(repo_cache) :
                 ~Overlap(StagingPath(tasks[t]), repo_cache[e].path)
       /\ \A e \in 1..Len(repo_cache) : exists(disk, repo_cache[e].path)

\* the directory numbered n
RoundDir(n) == <<"write_dockerfile_agent", n>>

\* the k-th call of run_task raised the count to k, wrote into the directory
\* numbered k and read the previous Dockerfile from the one numbered k - 1
NumberedRounds ==
  /\ run_count = Len(rounds)
  /\ \A k \in 1..Len(rounds) :
       /\ rounds[k].curr_dir = RoundDir(k)
       /\ rounds[k].prev_dir = RoundDir(k - 1)
       /\ rounds[k].prompt = "modify" <=> dockerfiles[RoundDir(k - 1)] # <<>>

\* once a directory holds a Dockerfile, the directory of every later round
\* that was run holds one
NeverLost ==
  \A m \in 0..run_count, n \in 1..run_count :
    (m < n /\ dockerfiles[RoundDir(m)] # <<>>) => dockerfiles[RoundDir(n)] # <<>>

\* C22 as stated: rounds are numbered as above; a Dockerfile, once there, is
\* in every later round's directory, and it is the file generated in that
\* round or, when none was generated, a copy of the previous round's file;
\* and is_ok is true exactly when the writer produced the file in the round.
C22_RoundsAsStated ==
  /\ NumberedRounds
  /\ NeverLost
  /\ \A k \in 1..Len(rounds) :
       /\ dockerfiles[RoundDir(k)] =
            IF rounds[k].produced THEN <<Generated(k)>>
            ELSE dockerfiles[RoundDir(k - 1)]
       /\ rounds[k].is_ok <=> rounds[k].produced

\* What run_task does guarantee (C22 with line 147 read as written): rounds
\* are numbered as above; a Dockerfile, once there, is in every later
\* round's directory, and it is the file generated in that round, else the
\* file the directory held before the round, else a copy of the previous
\* round's file; and is_ok is true exactly when the directory of the round
\* holds a Dockerfile when the writer returns: one the writer produced in
\* the round, or one that was there before it.
RoundsAsCoded ==
  /\ NumberedRounds
  /\ NeverLost
  /\ \A k \in 1..Len(rounds) :
       /\ dockerfiles[RoundDir(k)] =
            IF rounds[k].produced THEN <<Generated(k)>>
            ELSE IF rounds[k].found # <<>> THEN rounds[k].found
            ELSE dockerfiles[RoundDir(k - 1)]
       /\ rounds[k].is_ok <=> (rounds[k].produced \/ rounds[k].found # <<>>)

\* the writer produced a Dockerfile in the first round and none in the
\* second and third, whose empty directories got copies of it, and run_task
\* reported is_ok for the first round only
FallbackCopied ==
  /\ run_count = 3
  /\ rounds[1].produced /\ rounds[1].is_ok
  /\ \A k \in 2..3 :
       /\ ~rounds[k].produced
       /\ rounds[k].found = <<>>
       /\ ~rounds[k].is_ok
       /\ dockerfiles[RoundDir(k)] = <<Generated(1)>>

====
